---- MODULE Spec2Model ----
(***************************************************************************)
(* A model of bot.py: the substitution-cipher Puzzle class and the command *)
(* handlers that keep one Puzzle per user in the dict active_puzzles.      *)
(*                                                                         *)
(* A Python str is a sequence of characters; a character is a one-letter   *)
(* TLA+ string.  The alphabet string.ascii_lowercase / ascii_uppercase is  *)
(* cut down to its first NumLetters letters.  Besides these the model has  *)
(* a space, a punctuation mark, a digit, and one cased letter outside the  *)
(* ASCII alphabet in both cases, for which str.isalpha() is true although  *)
(* cipher_mapping has no entry for it.                                     *)
(***************************************************************************)
EXTENDS Integers, Sequences, FiniteSets, TLC

VARIABLES
    puzzle,          \* PuzzleSpec: the one Puzzle object under direct calls
    call,            \* PuzzleSpec: the last method call and what it returned
    prior,           \* PuzzleSpec: user_guesses as it was before that call
    quotes,          \* the list stored in quotes.json
    heap,            \* the Puzzle objects in memory, by identity
    active_puzzles,  \* the dict user-id -> Puzzle object
    tasks,           \* the suspended command handlers, one per slot
    out              \* the last ctx.send(...) or exception of a handler

vars == <<puzzle, call, prior, quotes, heap, active_puzzles, tasks, out>>

-----------------------------------------------------------------------------
(* Bounds *)

NumLetters == 2      \* letters of the alphabet kept (26 in string.ascii_*)
MaxQuotes == 1       \* entries of quotes.json
NumTasks == 2        \* command handlers suspended at once

-----------------------------------------------------------------------------
(* Characters and the str methods the program uses *)

AllLower == <<"a", "b", "c", "d">>
AllUpper == <<"A", "B", "C", "D">>

ascii_lowercase == SubSeq(AllLower, 1, NumLetters)
ascii_uppercase == SubSeq(AllUpper, 1, NumLetters)

Range(s) == {s[i] : i \in DOMAIN s}

LowerChars == Range(ascii_lowercase) \cup {"é"}
UpperChars == Range(ascii_uppercase) \cup {"É"}
Chars == LowerChars \cup UpperChars \cup {" ", "!", "1"}

IndexOf(s, ch) == CHOOSE i \in DOMAIN s : s[i] = ch

\* str.lower() and str.upper() of one character
lower_char(ch) ==
    IF ch \in Range(ascii_uppercase) THEN ascii_lowercase[IndexOf(ascii_uppercase, ch)]
    ELSE IF ch = "É" THEN "é"
    ELSE ch

upper_char(ch) ==
    IF ch \in Range(ascii_lowercase) THEN ascii_uppercase[IndexOf(ascii_lowercase, ch)]
    ELSE IF ch = "é" THEN "É"
    ELSE ch

lower(s) == [i \in DOMAIN s |-> lower_char(s[i])]
upper(s) == [i \in DOMAIN s |-> upper_char(s[i])]

\* str.isupper(): at least one cased character and no lowercase one
isupper(s) ==
    /\ \E i \in DOMAIN s : s[i] \in UpperChars
    /\ \A i \in DOMAIN s : s[i] \notin LowerChars

\* str.islower(): at least one cased character and no uppercase one
islower(s) ==
    /\ \E i \in DOMAIN s : s[i] \in LowerChars
    /\ \A i \in DOMAIN s : s[i] \notin UpperChars

\* str.isalpha() and str.isalnum() of one character
isalpha(ch) == ch \in LowerChars \cup UpperChars
isalnum(ch) == isalpha(ch) \/ ch = "1"

-----------------------------------------------------------------------------
(* dict operations *)

EmptyDict == <<>>

DictSet(d, k, v) == [x \in DOMAIN d \cup {k} |-> IF x = k THEN v ELSE d[x]]

DictDel(d, k) == [x \in DOMAIN d \ {k} |-> d[x]]

-----------------------------------------------------------------------------
(* class Puzzle *)

\* the outcomes of random.shuffle(shuffled): every order of the cipher letters
Shuffles ==
    {s \in [1..NumLetters -> Range(ascii_uppercase)] :
        \A i, j \in 1..NumLetters : s[i] = s[j] => i = j}

\* a mapping that gives every plain letter the first letter of the shuffle
generate_cipher_first(shuffled) ==
    [c \in Range(ascii_lowercase) |-> shuffled[1]]

\* dict(zip(alphabet, shuffled))
generate_cipher(shuffled) ==
    [c \in Range(ascii_lowercase) |-> shuffled[IndexOf(ascii_lowercase, c)]]

\* Puzzle(plaintext), with the shuffle random.shuffle produced
Puzzle_init(plaintext, shuffled) ==
    [plaintext |-> lower(plaintext),
     cipher_mapping |-> generate_cipher(shuffled),
     user_guesses |-> EmptyDict]

\* self.cipher_mapping.get(c, c) for each c of the plaintext
get_ciphertext(self) ==
    [i \in DOMAIN self.plaintext |->
        IF self.plaintext[i] \in DOMAIN self.cipher_mapping
        THEN self.cipher_mapping[self.plaintext[i]]
        ELSE self.plaintext[i]]

\* a display that blanks every character it has no guess for
get_current_guess_blank(self) ==
    LET ciphertext == get_ciphertext(self)
    IN  [i \in DOMAIN ciphertext |->
            IF isalpha(ciphertext[i]) /\ ciphertext[i] \in DOMAIN self.user_guesses
            THEN self.user_guesses[ciphertext[i]]
            ELSE "_"]

\* a display that leaves out the characters that are not letters
get_current_guess_compact(self) ==
    LET ciphertext == get_ciphertext(self)
        shown(i) == IF ciphertext[i] \in DOMAIN self.user_guesses
                    THEN self.user_guesses[ciphertext[i]] ELSE "_"
        letters == {i \in DOMAIN ciphertext : isalpha(ciphertext[i])}
        nth(k) == CHOOSE i \in letters : Cardinality({j \in letters : j < i}) = k - 1
    IN  [k \in 1..Cardinality(letters) |-> shown(nth(k))]

get_current_guess(self) ==
    LET ciphertext == get_ciphertext(self)
    IN  [i \in DOMAIN ciphertext |->
            IF isalpha(ciphertext[i]) /\ ciphertext[i] \in DOMAIN self.user_guesses
            THEN self.user_guesses[ciphertext[i]]
            ELSE IF isalpha(ciphertext[i]) THEN "_"
            ELSE ciphertext[i]]

\* a lookup by the cipher letter's own place in the alphabet
ScanMapping_position(self, cipher_char) ==
    IF Len(cipher_char) = 1 /\ cipher_char[1] \in Range(ascii_uppercase)
    THEN IndexOf(ascii_uppercase, cipher_char[1])
    ELSE 0

\* The loop over cipher_mapping.items(), in the dict's insertion order a, b, ...:
\* the position of the first plain letter mapped to cipher_char, 0 if none is.
\* cipher_char is a str: it equals a mapped letter only if it is that one letter.
ScanMapping(self, cipher_char) ==
    LET hits == {i \in 1..NumLetters :
                    <<self.cipher_mapping[ascii_lowercase[i]]>> = cipher_char}
    IN  IF hits = {} THEN 0 ELSE CHOOSE i \in hits : \A j \in hits : i <= j

\* make_guess without the comparison of line 73: any guess for a mapped letter is stored
make_guess_unchecked(self, cipher_char, plain_char) ==
    IF ~(isupper(cipher_char) /\ islower(plain_char))
    THEN [ret |-> FALSE, self |-> self]
    ELSE IF ScanMapping(self, cipher_char) = 0 THEN [ret |-> FALSE, self |-> self]
    ELSE [ret |-> TRUE,
          self |-> [self EXCEPT !.user_guesses =
                        DictSet(@, cipher_char[1], plain_char[1])]]

\* make_guess that starts user_guesses afresh on a correct guess
make_guess_resets(self, cipher_char, plain_char) ==
    LET r == make_guess_unchecked(self, cipher_char, plain_char)
    IN  IF r.ret /\ <<ascii_lowercase[ScanMapping(self, cipher_char)]>> = plain_char
        THEN [ret |-> TRUE,
              self |-> [self EXCEPT !.user_guesses =
                            DictSet(EmptyDict, cipher_char[1], plain_char[1])]]
        ELSE [ret |-> FALSE, self |-> self]

make_guess(self, cipher_char, plain_char) ==
    IF ~(isupper(cipher_char) /\ islower(plain_char))
    THEN [ret |-> FALSE, self |-> self]
    ELSE LET i == ScanMapping(self, cipher_char)
         IN  IF i = 0 THEN [ret |-> FALSE, self |-> self]
             ELSE IF <<ascii_lowercase[i]>> = plain_char
             THEN [ret |-> TRUE,
                   self |-> [self EXCEPT !.user_guesses =
                                DictSet(@, cipher_char[1], plain_char[1])]]
             ELSE [ret |-> FALSE, self |-> self]

\* undo_guess that drops every guess, not only the one for cipher_char
undo_guess_all(self, cipher_char) ==
    IF Len(cipher_char) = 1 /\ cipher_char[1] \in DOMAIN self.user_guesses
    THEN [ret |-> TRUE, self |-> [self EXCEPT !.user_guesses = EmptyDict]]
    ELSE [ret |-> FALSE, self |-> self]

\* cipher_char is a str; the keys of user_guesses are single letters
undo_guess(self, cipher_char) ==
    IF Len(cipher_char) = 1 /\ cipher_char[1] \in DOMAIN self.user_guesses
    THEN [ret |-> TRUE,
          self |-> [self EXCEPT !.user_guesses = DictDel(@, cipher_char[1])]]
    ELSE [ret |-> FALSE, self |-> self]

\* a clear that also puts the mapping back to the alphabet's own order
clear_guesses_reshuffle(self) ==
    [self EXCEPT !.user_guesses = EmptyDict,
                 !.cipher_mapping = generate_cipher(ascii_uppercase)]

clear_guesses(self) == [self EXCEPT !.user_guesses = EmptyDict]

is_solved(self) == get_current_guess(self) = self.plaintext

\* the values random.choice(unguessed) can return
Unguessed(self) ==
    {ch \in Range(get_ciphertext(self)) :
        isalpha(ch) /\ ch \notin DOMAIN self.user_guesses}

NoHint == <<>>

\* RevealChosen storing the chosen letter whether or not the mapping has it
RevealChosen_unmapped(self, chosen_cipher) ==
    LET i == ScanMapping(self, <<chosen_cipher>>)
        p == IF i = 0 THEN lower_char(chosen_cipher) ELSE ascii_lowercase[i]
    IN  [ret |-> <<chosen_cipher, p>>,
         self |-> [self EXCEPT !.user_guesses = DictSet(@, chosen_cipher, p)]]

\* the rest of give_hint once random.choice has picked chosen_cipher
RevealChosen(self, chosen_cipher) ==
    LET i == ScanMapping(self, <<chosen_cipher>>)
    IN  IF i = 0 THEN [ret |-> NoHint, self |-> self]
        ELSE [ret |-> <<chosen_cipher, ascii_lowercase[i]>>,
              self |-> [self EXCEPT !.user_guesses =
                            DictSet(@, chosen_cipher, ascii_lowercase[i])]]

\* give_hint: what it can return and leave behind, one outcome per letter
\* random.choice can pick
give_hint(self) ==
    IF Unguessed(self) = {} THEN {[ret |-> NoHint, self |-> self]}
    ELSE {RevealChosen(self, chosen_cipher) : chosen_cipher \in Unguessed(self)}

-----------------------------------------------------------------------------
(* Inputs *)

\* quotes a user can store with !addquote (or quotes.json can hold)
QuotePool ==
    {<<ascii_uppercase[1], ascii_lowercase[2]>>,
     <<"1", "!">>}

\* plaintexts a Puzzle is constructed with in PuzzleSpec
Plaintexts ==
    QuotePool \cup {<<>>, <<ascii_lowercase[1], "!">>, <<"é", ascii_lowercase[1]>>}

\* str arguments of make_guess and undo_guess
Tokens ==
    {<<ch>> : ch \in Chars \ {" ", "!"}}
        \cup {<<ascii_uppercase[1], "1">>, <<ascii_lowercase[1], "!">>}

\* ctx.author.id of the users sending commands
Users == {1, 2}

\* str arguments of !undo, before the handler's upper()
CommandTokens == {<<ascii_lowercase[1]>>, <<ascii_uppercase[2]>>, <<"1">>}

\* (cipher_char, plain_char) arguments of !guess, before the handler's
\* upper() and lower(): letters in either case, and a digit
GuessArgs ==
    {<<c, p>> : c \in {<<ascii_lowercase[1]>>, <<ascii_uppercase[2]>>},
                p \in {<<ascii_lowercase[1]>>, <<ascii_uppercase[2]>>}}
        \cup {<<<<"1">>, <<ascii_lowercase[1]>>>>}

\* guess_text arguments of !solve
SolveTexts ==
    {<<ascii_lowercase[2]>>,
     <<ascii_uppercase[1], " ", ascii_lowercase[2]>>,
     <<"1">>}

-----------------------------------------------------------------------------
(* The command handlers' state before any command *)

\* A slot holds one suspended invocation of a command handler: where it is
\* suspended (pc), ctx.author.id and its local variable puzzle.
Idle == [pc |-> "idle", user |-> 0, puzzle |-> 0]

NoReply == ""

BotInit ==
    /\ quotes = <<>>
    /\ heap = EmptyDict
    /\ active_puzzles = EmptyDict
    /\ tasks = [t \in 1..NumTasks |-> Idle]
    /\ out = NoReply

botvars == <<quotes, heap, active_puzzles, tasks, out>>

-----------------------------------------------------------------------------
(* PuzzleSpec: one Puzzle object and direct calls of its methods *)

\* after_guess: this undo_guess directly followed a make_guess of the same
\* cipher_char, and base is user_guesses as it was before that make_guess
NoCall ==
    [op |-> "new", cipher_char |-> <<>>, plain_char |-> <<>>,
     ret |-> FALSE, hint |-> NoHint, after_guess |-> FALSE, base |-> EmptyDict]

PuzzleInit ==
    /\ \E plaintext \in Plaintexts, shuffled \in Shuffles :
            puzzle = Puzzle_init(plaintext, shuffled)
    /\ call = NoCall
    /\ prior = EmptyDict
    /\ BotInit

CallMakeGuess ==
    \E cipher_char \in Tokens, plain_char \in Tokens :
        LET r == make_guess(puzzle, cipher_char, plain_char)
        IN  /\ puzzle' = r.self
            /\ call' = [NoCall EXCEPT !.op = "make_guess",
                                       !.cipher_char = cipher_char,
                                       !.plain_char = plain_char,
                                       !.ret = r.ret]
            /\ prior' = puzzle.user_guesses
            /\ UNCHANGED botvars

AfterGuess(cipher_char) ==
    call.op = "make_guess" /\ call.cipher_char = cipher_char

CallUndoGuess ==
    \E cipher_char \in Tokens :
        LET r == undo_guess(puzzle, cipher_char)
        IN  /\ puzzle' = r.self
            /\ call' = [NoCall EXCEPT !.op = "undo_guess",
                                       !.cipher_char = cipher_char,
                                       !.ret = r.ret,
                                       !.after_guess = AfterGuess(cipher_char),
                                       !.base = IF AfterGuess(cipher_char)
                                                THEN prior ELSE EmptyDict]
            /\ prior' = puzzle.user_guesses
            /\ UNCHANGED botvars

CallClearGuesses ==
    /\ puzzle' = clear_guesses(puzzle)
    /\ call' = [NoCall EXCEPT !.op = "clear_guesses"]
    /\ prior' = puzzle.user_guesses
    /\ UNCHANGED botvars

CallGiveHint ==
    \E r \in give_hint(puzzle) :
        /\ puzzle' = r.self
        /\ call' = [NoCall EXCEPT !.op = "give_hint", !.hint = r.ret]
        /\ prior' = puzzle.user_guesses
        /\ UNCHANGED botvars

PuzzleNext ==
    \/ CallMakeGuess
    \/ CallUndoGuess
    \/ CallClearGuesses
    \/ CallGiveHint

PuzzleSpec == PuzzleInit /\ [][PuzzleNext]_vars

-----------------------------------------------------------------------------
(* Claims about the Puzzle methods, checked under PuzzleSpec *)

\* the alphabetic characters of the ciphertext
CipherLetters(self) == {ch \in Range(get_ciphertext(self)) : isalpha(ch)}

\* C1: every entry C -> p of user_guesses agrees with the true mapping,
\* cipher_mapping[p] = C; no incorrect guess is ever stored.
C1_RevealedAgrees ==
    \A C \in DOMAIN puzzle.user_guesses :
        /\ puzzle.user_guesses[C] \in DOMAIN puzzle.cipher_mapping
        /\ puzzle.cipher_mapping[puzzle.user_guesses[C]] = C

\* a correct guess was stored next to an earlier entry
C1_Witness ==
    /\ call.op = "make_guess" /\ call.ret
    /\ Cardinality(DOMAIN puzzle.user_guesses) = 2
    /\ call.cipher_char[1] \notin DOMAIN prior

\* (cipher_char, plain_char) is a correct guess: one cipher letter and the one
\* plain letter the mapping sends to it
CorrectGuess(self, cipher_char, plain_char) ==
    /\ Len(cipher_char) = 1 /\ Len(plain_char) = 1
    /\ plain_char[1] \in DOMAIN self.cipher_mapping
    /\ self.cipher_mapping[plain_char[1]] = cipher_char[1]

\* C2: a correct make_guess returns true and removes no entry of user_guesses;
\* any other make_guess (wrong letter, cipher_char not uppercase, plain_char
\* not lowercase, cipher_char not a mapped letter) returns false and leaves
\* user_guesses exactly as it was.
C2_GuessMonotone ==
    [][call'.op = "make_guess" =>
        IF CorrectGuess(puzzle, call'.cipher_char, call'.plain_char)
        THEN /\ call'.ret
             /\ \A k \in DOMAIN puzzle.user_guesses :
                    /\ k \in DOMAIN puzzle'.user_guesses
                    /\ puzzle'.user_guesses[k] = puzzle.user_guesses[k]
        ELSE /\ ~call'.ret
             /\ puzzle'.user_guesses = puzzle.user_guesses]_vars

\* a correct guess made while another letter was already revealed
C2_Witness ==
    /\ call.op = "make_guess" /\ call.ret
    /\ prior # EmptyDict
    /\ call.cipher_char[1] \notin DOMAIN prior
    /\ \A k \in DOMAIN prior : k \in DOMAIN puzzle.user_guesses

\* cipher_char is a key of the dict d
IsKey(d, cipher_char) == Len(cipher_char) = 1 /\ cipher_char[1] \in DOMAIN d

\* C3 as stated: make_guess(C, p) followed by undo_guess(C) leaves
\* user_guesses as it was before the make_guess.
C3_UndoInverse_Original ==
    (call.op = "undo_guess" /\ call.after_guess) => puzzle.user_guesses = call.base

\* C3 amended: make_guess(C, p) followed by undo_guess(C) leaves user_guesses
\* as it was before the make_guess, provided C was not a key of user_guesses
\* before the make_guess.
C3_UndoInverse ==
    (call.op = "undo_guess" /\ call.after_guess /\ ~IsKey(call.base, call.cipher_char))
        => puzzle.user_guesses = call.base

\* an undo_guess removed the entry the make_guess before it had just added,
\* with another entry in place
C3_Witness ==
    /\ call.op = "undo_guess" /\ call.after_guess /\ call.ret
    /\ ~IsKey(call.base, call.cipher_char)
    /\ call.base # EmptyDict

\* C4: a give_hint call that returns nothing leaves a puzzle for which
\* is_solved() is true (calling give_hint until it returns nothing solves
\* the puzzle).
C4_HintExhaustion ==
    (call.op = "give_hint" /\ call.hint = NoHint) => is_solved(puzzle)

\* C6 as stated: the keys of user_guesses all occur among the alphabetic
\* characters of the ciphertext.
C6_KeysOccur_Original ==
    DOMAIN puzzle.user_guesses \subseteq CipherLetters(puzzle)

\* C6 amended: the keys of user_guesses are cipher letters of the mapping
\* (values of cipher_mapping), and a key that give_hint adds occurs among
\* the alphabetic characters of the ciphertext.
C6_KeysMapped ==
    /\ DOMAIN puzzle.user_guesses \subseteq
            {puzzle.cipher_mapping[p] : p \in DOMAIN puzzle.cipher_mapping}
    /\ call.op = "give_hint" =>
            DOMAIN puzzle.user_guesses \ DOMAIN prior \subseteq CipherLetters(puzzle)

\* both a hint and a correct guess for a letter absent from the ciphertext
\* are stored
C6_Witness ==
    /\ call.op = "give_hint" /\ call.hint # NoHint
    /\ call.hint[1] \in CipherLetters(puzzle)
    /\ \E k \in DOMAIN puzzle.user_guesses : k \notin CipherLetters(puzzle)

\* C11: the generated cipher_mapping has one entry per letter of the
\* alphabet; every lowercase letter is a key, and every uppercase letter is
\* the value of exactly one key.
C11_Bijection ==
    LET m == puzzle.cipher_mapping
    IN  /\ Cardinality(DOMAIN m) = NumLetters
        /\ DOMAIN m = Range(ascii_lowercase)
        /\ \A C \in Range(ascii_uppercase) :
            Cardinality({p \in DOMAIN m : m[p] = C}) = 1
        /\ \A p \in DOMAIN m : m[p] \in Range(ascii_uppercase)

\* a mapping that random.shuffle changed: the first letter got the last one
C11_Witness ==
    /\ call.op = "new"
    /\ puzzle.cipher_mapping[ascii_lowercase[1]] = ascii_uppercase[NumLetters]

\* encode(p): the cipher letter get_ciphertext writes for the plain letter p
Encode(self, p) == get_ciphertext([self EXCEPT !.plaintext = <<p>>])[1]

\* C12: for every plain letter p, the scan of cipher_mapping for the cipher
\* letter that encodes p finds p, no other plain letter is mapped to that
\* cipher letter, and make_guess(encode(p), q) returns True exactly when q = p.
C12_RoundTrip ==
    \A p \in Range(ascii_lowercase) :
        LET C == Encode(puzzle, p)
        IN  /\ ScanMapping(puzzle, <<C>>) # 0
            /\ ascii_lowercase[ScanMapping(puzzle, <<C>>)] = p
            /\ {q \in DOMAIN puzzle.cipher_mapping : puzzle.cipher_mapping[q] = C} = {p}
            /\ \A q \in Tokens : make_guess(puzzle, <<C>>, q).ret = (q = <<p>>)

\* a guess accepted under a mapping that is not the alphabet's own order
C12_Witness ==
    /\ call.op = "make_guess"
    /\ call.ret
    /\ call.cipher_char # upper(call.plain_char)
    /\ call.cipher_char = <<Encode(puzzle, call.plain_char[1])>>

\* C13: is_solved() is true exactly when get_current_guess() equals the
\* plaintext, and that is exactly when every alphabetic character of the
\* ciphertext is a key of user_guesses.
C13_SolvedIff ==
    /\ is_solved(puzzle) = (get_current_guess(puzzle) = puzzle.plaintext)
    /\ is_solved(puzzle) = (CipherLetters(puzzle) \subseteq DOMAIN puzzle.user_guesses)

\* a puzzle with letters and another character, solved by its last reveal
C13_Witness ==
    /\ is_solved(puzzle)
    /\ call.op \in {"make_guess", "give_hint"}
    /\ prior # puzzle.user_guesses
    /\ \E i \in DOMAIN puzzle.plaintext : ~isalpha(puzzle.plaintext[i])

\* C14: get_current_guess() is as long as the ciphertext and shows, at each
\* position, the revealed plain letter (the plaintext's letter there) where
\* the ciphertext character is alphabetic and a key of user_guesses, an
\* underscore where it is alphabetic and not a key, and the ciphertext
\* character itself where it is not alphabetic.
C14_GuessLayout ==
    LET ciphertext == get_ciphertext(puzzle)
        shown == get_current_guess(puzzle)
    IN  /\ Len(shown) = Len(ciphertext)
        /\ \A i \in 1..Len(ciphertext) :
            /\ isalpha(ciphertext[i]) /\ ciphertext[i] \in DOMAIN puzzle.user_guesses
                => /\ shown[i] = puzzle.user_guesses[ciphertext[i]]
                   /\ shown[i] = puzzle.plaintext[i]
            /\ isalpha(ciphertext[i]) /\ ciphertext[i] \notin DOMAIN puzzle.user_guesses
                => shown[i] = "_"
            /\ ~isalpha(ciphertext[i]) => shown[i] = ciphertext[i]

\* a display with a revealed letter next to an underscore
C14_Witness ==
    LET shown == get_current_guess(puzzle)
    IN  /\ \E i \in DOMAIN shown : shown[i] = "_"
        /\ \E i \in DOMAIN shown : shown[i] \in Range(ascii_lowercase)

\* C16: when some alphabetic character of the ciphertext is not a key of
\* user_guesses, give_hint returns a pair (C, p) with C in the ciphertext, C
\* not a key before the call and cipher_mapping[p] = C, and user_guesses
\* afterwards is what it was plus the entry C -> p; when there is no such
\* character it returns nothing and leaves user_guesses as it was.
C16_GiveHintEffect ==
    call.op = "give_hint" =>
        IF CipherLetters(puzzle) \subseteq DOMAIN prior
        THEN call.hint = NoHint /\ puzzle.user_guesses = prior
        ELSE /\ call.hint # NoHint
             /\ call.hint[1] \in CipherLetters(puzzle)
             /\ call.hint[1] \notin DOMAIN prior
             /\ call.hint[2] \in DOMAIN puzzle.cipher_mapping
             /\ puzzle.cipher_mapping[call.hint[2]] = call.hint[1]
             /\ puzzle.user_guesses = DictSet(prior, call.hint[1], call.hint[2])

-----------------------------------------------------------------------------
(* The command handlers.  A handler runs without interruption up to an       *)
(* await ctx.send(...), where the handlers of other messages can run, and    *)
(* is resumed later.  A handler whose last statement is that await has       *)
(* nothing left to do when it is resumed, so it takes no slot: tasks holds   *)
(* the handlers that are suspended with statements still to run.             *)
(*                                                                           *)
(* Each handler is an operator giving the set of outcomes of one             *)
(* uninterrupted run of it from the current state (one outcome per random    *)
(* choice); the actions below apply one of them.                             *)

Free(t) == tasks[t].pc = "idle"

\* a new invocation takes the first free slot
Starts(t) == Free(t) /\ \A t2 \in 1..(t - 1) : ~Free(t2)

\* active_puzzles.get(ctx.author.id), 0 for None
Get(u) == IF u \in DOMAIN active_puzzles THEN active_puzzles[u] ELSE 0

\* The Puzzle objects that can still be read: those in the dict and the local
\* puzzle of a handler suspended inside give_hint_command.  A handler
\* suspended before its del never reads its puzzle again: it keeps the
\* object's identity only.
Live(ap, ts) ==
    {ap[u] : u \in DOMAIN ap}
        \cup {ts[t].puzzle : t \in {x \in DOMAIN ts : ts[x].pc = "hint_sent"}}

\* the contents of the other objects are dropped
Collect(h, ap, ts) == [pid \in DOMAIN h \cap Live(ap, ts) |-> h[pid]]

\* the identities in use
InUse == DOMAIN heap \cup {tasks[t].puzzle : t \in DOMAIN tasks}

\* The identity of the object new_puzzle creates for user u: the first one
\* not in use among u, u + |Users|, u + 2|Users|, ...  An object is only ever
\* held under its creator's key and by its creator's handlers, so that the
\* identities of one user's objects need not depend on the other users'.
NewId(u) ==
    LET n == Cardinality(Users)
        k == CHOOSE i \in 0..Cardinality(InUse) :
                /\ u + n * i \notin InUse
                /\ \A j \in 0..(i - 1) : u + n * j \in InUse
    IN  u + n * k

Suspended(u, pid, pc) == [pc |-> pc, user |-> u, puzzle |-> pid]

\* The outcome of one uninterrupted run of a handler: the suspended handlers,
\* the dict and the objects it leaves, and the message it passed to ctx.send
\* (or the exception it raised).
Outcome(newTasks, newActive, newHeap, sent) ==
    [tasks |-> newTasks,
     active_puzzles |-> newActive,
     heap |-> Collect(newHeap, newActive, newTasks),
     quotes |-> quotes,
     out |-> sent]

\* display_puzzle, called when the dict is registry: the lookup
\* active_puzzles[ctx.author.id] raises KeyError when the user has no entry,
\* else the embed is sent
display_puzzle(registry, u) == IF u \in DOMAIN registry THEN "embed" ELSE "KeyError"

\* ''.join(ch for ch in text.lower() if ch.isalnum())
RECURSIVE KeepAlnum(_)
KeepAlnum(text) ==
    IF text = <<>> THEN <<>>
    ELSE (IF isalnum(Head(text)) THEN <<Head(text)>> ELSE <<>>)
            \o KeepAlnum(Tail(text))

normalize(text) == KeepAlnum(lower(text))

\* a newpuzzle that starts a puzzle from an empty text when there is no quote
new_puzzle_blank(t, u) ==
    LET pid == NewId(u)
        registry == DictSet(active_puzzles, u, pid)
    IN  {Outcome(tasks,
                 registry,
                 DictSet(heap, pid, Puzzle_init(quote, shuffled)),
                 display_puzzle(registry, u)) :
            quote \in IF quotes = <<>> THEN {<<>>} ELSE Range(quotes),
            shuffled \in Shuffles}

\* a newpuzzle that carries the revealed letters of the user's puzzle over
new_puzzle_keep(t, u) ==
    IF quotes = <<>>
    THEN {Outcome(tasks, active_puzzles, heap, "no_quotes")}
    ELSE LET pid == NewId(u)
             registry == DictSet(active_puzzles, u, pid)
             kept == IF u \in DOMAIN active_puzzles
                     THEN heap[active_puzzles[u]].user_guesses ELSE EmptyDict
         IN  {Outcome(tasks,
                      registry,
                      DictSet(heap, pid,
                              [Puzzle_init(quote, shuffled) EXCEPT !.user_guesses = kept]),
                      display_puzzle(registry, u)) :
                quote \in Range(quotes), shuffled \in Shuffles}

new_puzzle(t, u) ==
    IF quotes = <<>>
    THEN {Outcome(tasks, active_puzzles, heap, "no_quotes")}
    ELSE LET pid == NewId(u)
             registry == DictSet(active_puzzles, u, pid)
         IN  {Outcome(tasks,
                      registry,
                      DictSet(heap, pid, Puzzle_init(quote, shuffled)),
                      display_puzzle(registry, u)) :
                quote \in Range(quotes), shuffled \in Shuffles}

guess(t, u, cipher_char, plain_char) ==
    LET pid == Get(u)
        r == make_guess(heap[pid], upper(cipher_char), lower(plain_char))
    IN  IF pid = 0
        THEN {Outcome(tasks, active_puzzles, heap, "no_active")}
        ELSE IF ~r.ret
        THEN {Outcome(tasks, active_puzzles, heap, "incorrect")}
        ELSE IF is_solved(r.self)
        THEN {Outcome([tasks EXCEPT ![t] = Suspended(u, pid, "del")],
                      active_puzzles,
                      [heap EXCEPT ![pid] = r.self],
                      "congrats")}
        ELSE {Outcome(tasks, active_puzzles, [heap EXCEPT ![pid] = r.self],
                      display_puzzle(active_puzzles, u))}

undo(t, u, cipher_char) ==
    LET pid == Get(u)
        r == undo_guess(heap[pid], upper(cipher_char))
    IN  IF pid = 0
        THEN {Outcome(tasks, active_puzzles, heap, "no_active")}
        ELSE IF r.ret
        THEN {Outcome(tasks, active_puzzles, [heap EXCEPT ![pid] = r.self],
                      display_puzzle(active_puzzles, u))}
        ELSE {Outcome(tasks, active_puzzles, heap, "no_guess")}

\* a clear that also ends the session
clear_ends(t, u) ==
    LET pid == Get(u)
    IN  IF pid = 0
        THEN {Outcome(tasks, active_puzzles, heap, "no_active")}
        ELSE {Outcome(tasks, DictDel(active_puzzles, u), heap, "embed")}

clear(t, u) ==
    LET pid == Get(u)
    IN  IF pid = 0
        THEN {Outcome(tasks, active_puzzles, heap, "no_active")}
        ELSE {Outcome(tasks, active_puzzles,
                      [heap EXCEPT ![pid] = clear_guesses(heap[pid])],
                      display_puzzle(active_puzzles, u))}

\* a solve that compares the texts as they are
solve_puzzle_exact(t, u, guess_text) ==
    LET pid == Get(u)
    IN  IF pid = 0
        THEN {Outcome(tasks, active_puzzles, heap, "no_active")}
        ELSE IF guess_text = heap[pid].plaintext
        THEN {Outcome([tasks EXCEPT ![t] = Suspended(u, pid, "del")],
                      active_puzzles, heap, "congrats")}
        ELSE {Outcome(tasks, active_puzzles, heap, "no_match")}

\* solve_puzzle up to its await
solve_puzzle(t, u, guess_text) ==
    LET pid == Get(u)
    IN  IF pid = 0
        THEN {Outcome(tasks, active_puzzles, heap, "no_active")}
        ELSE IF normalize(guess_text) = normalize(heap[pid].plaintext)
        THEN {Outcome([tasks EXCEPT ![t] = Suspended(u, pid, "del")],
                      active_puzzles, heap, "congrats")}
        ELSE {Outcome(tasks, active_puzzles, heap, "no_match")}

add_quote(t, u, quote) ==
    {[Outcome(tasks, active_puzzles, heap, "quote_added")
        EXCEPT !.quotes = Append(quotes, quote)]}

\* give_hint_command up to its first await
give_hint_command(t, u) ==
    LET pid == Get(u)
    IN  IF pid = 0
        THEN {Outcome(tasks, active_puzzles, heap, "no_active")}
        ELSE {IF r.ret # NoHint
              THEN Outcome([tasks EXCEPT ![t] = Suspended(u, pid, "hint_sent")],
                           active_puzzles,
                           [heap EXCEPT ![pid] = r.self],
                           "hint")
              ELSE IF is_solved(r.self)
              THEN Outcome(tasks, active_puzzles, heap, "already_solved")
              ELSE Outcome(tasks, active_puzzles, heap, "nothing_to_hint") :
                r \in give_hint(heap[pid])}

\* give_hint_command from the await of line 235 to its next await, for the
\* handler suspended in slot t
give_hint_command_resume(t) ==
    LET u == tasks[t].user
    IN  IF is_solved(heap[tasks[t].puzzle])
        THEN {Outcome([tasks EXCEPT ![t].pc = "del"], active_puzzles, heap, "congrats")}
        ELSE {Outcome([tasks EXCEPT ![t] = Idle], active_puzzles, heap,
                      display_puzzle(active_puzzles, u))}

\* an answer without the test for None
show_answer_unchecked(t, u) ==
    {Outcome([tasks EXCEPT ![t] = Suspended(u, Get(u), "del")],
             active_puzzles, heap, "answer")}

\* show_answer up to its await
show_answer(t, u) ==
    IF Get(u) = 0
    THEN {Outcome(tasks, active_puzzles, heap, "no_active")}
    ELSE {Outcome([tasks EXCEPT ![t] = Suspended(u, Get(u), "del")],
                  active_puzzles, heap, "answer")}

\* a removal that empties the dict
clear_active_puzzles(t) ==
    {Outcome([tasks EXCEPT ![t] = Idle], EmptyDict, heap, out)}

\* the last statement of guess, solve_puzzle, give_hint_command and
\* show_answer, del active_puzzles[ctx.author.id] (lines 157, 202, 239, 255),
\* for the handler suspended in slot t: KeyError when the user has no entry
del_active_puzzle(t) ==
    LET u == tasks[t].user
    IN  IF u \in DOMAIN active_puzzles
        THEN {Outcome([tasks EXCEPT ![t] = Idle], DictDel(active_puzzles, u), heap, out)}
        ELSE {Outcome([tasks EXCEPT ![t] = Idle], active_puzzles, heap, "KeyError")}

-----------------------------------------------------------------------------
(* The actions *)

\* one of the outcomes happens
Run(outcomes) ==
    /\ \E o \in outcomes :
        /\ tasks' = o.tasks
        /\ active_puzzles' = o.active_puzzles
        /\ heap' = o.heap
        /\ quotes' = o.quotes
        /\ out' = o.out
    /\ UNCHANGED <<puzzle, call, prior>>

CmdNewPuzzle(t, u) == Starts(t) /\ Run(new_puzzle(t, u))

CmdGuess(t, u, cipher_char, plain_char) ==
    Starts(t) /\ Run(guess(t, u, cipher_char, plain_char))

CmdUndo(t, u, cipher_char) == Starts(t) /\ Run(undo(t, u, cipher_char))

CmdClear(t, u) == Starts(t) /\ Run(clear(t, u))

CmdSolve(t, u, guess_text) == Starts(t) /\ Run(solve_puzzle(t, u, guess_text))

CmdAddQuote(t, u, quote) ==
    Starts(t) /\ Len(quotes) < MaxQuotes /\ Run(add_quote(t, u, quote))

CmdHint(t, u) == Starts(t) /\ Run(give_hint_command(t, u))

CmdAnswer(t, u) == Starts(t) /\ Run(show_answer(t, u))

ResumeHint(t) == tasks[t].pc = "hint_sent" /\ Run(give_hint_command_resume(t))

ResumeDel(t) == tasks[t].pc = "del" /\ Run(del_active_puzzle(t))

Init ==
    /\ BotInit
    /\ puzzle = Puzzle_init(<<>>, ascii_uppercase)
    /\ call = NoCall
    /\ prior = EmptyDict

\* The commands of the users U, with the slots T: a command is handled when
\* one of the slots T is free, whether or not its handler comes to need it.
Commands(U, T) ==
    \/ \E t \in T, u \in U : CmdNewPuzzle(t, u)
    \/ \E t \in T, u \in U, args \in GuessArgs : CmdGuess(t, u, args[1], args[2])
    \/ \E t \in T, u \in U, cipher_char \in CommandTokens : CmdUndo(t, u, cipher_char)
    \/ \E t \in T, u \in U : CmdClear(t, u)
    \/ \E t \in T, u \in U, guess_text \in SolveTexts : CmdSolve(t, u, guess_text)
    \/ \E t \in T, u \in U, quote \in QuotePool : CmdAddQuote(t, u, quote)
    \/ \E t \in T, u \in U : CmdHint(t, u)
    \/ \E t \in T, u \in U : CmdAnswer(t, u)
    \/ \E t \in T : ResumeHint(t)
    \/ \E t \in T : ResumeDel(t)

\* Spec: the users send their commands one after the other: a suspended
\* handler is resumed before the next command is handled
Next == Commands(Users, {1})

Spec == Init /\ [][Next]_vars

\* RaceSpec: one user sends commands while handlers of earlier commands are
\* suspended, up to NumTasks of them at once
RaceNext == Commands({1}, 1..NumTasks)

RaceSpec == Init /\ [][RaceNext]_vars

\* quotes.json is deleted or emptied outside the program: load_quotes
\* returns [] from then on, until a quote is added
QuotesFileRemoved ==
    /\ quotes # <<>>
    /\ quotes' = <<>>
    /\ UNCHANGED <<puzzle, call, prior, heap, active_puzzles, tasks, out>>

\* StoreSpec: one user sends commands one after the other, and quotes.json
\* can go away while the user has a puzzle
StoreNext == Commands({1}, {1}) \/ QuotesFileRemoved

StoreSpec == Init /\ [][StoreNext]_vars

-----------------------------------------------------------------------------
(* The properties of the handlers *)

\* some handler is suspended with statements still to run
Busy == \E t \in DOMAIN tasks : tasks[t].pc # "idle"

\* the Puzzle registered for u
PuzzleOf(u) == heap[active_puzzles[u]]

\* C5: once every handler has run to completion, every registered user is
\* bound to a Puzzle that is in progress: is_solved() is false for it.
C5_RegistryInProgress ==
    ~Busy =>
        \A u \in DOMAIN active_puzzles :
            /\ active_puzzles[u] \in DOMAIN heap
            /\ ~is_solved(PuzzleOf(u))

\* the outcomes of guess, undo, clear, solve, hint and answer invoked by u
PuzzleCommands(t, u) ==
    UNION ({guess(t, u, args[1], args[2]) : args \in GuessArgs}
        \cup {undo(t, u, cipher_char) : cipher_char \in CommandTokens}
        \cup {clear(t, u)}
        \cup {solve_puzzle(t, u, guess_text) : guess_text \in SolveTexts}
        \cup {give_hint_command(t, u)}
        \cup {show_answer(t, u)})

\* C7: guess, undo, clear, solve, hint and answer invoked by a user with no
\* entry in active_puzzles reply that there is no active puzzle, raise
\* nothing, suspend nothing, and leave the dict and every Puzzle as they were.
C7_NoActivePuzzle ==
    \A u \in Users \ DOMAIN active_puzzles :
        \A t \in DOMAIN tasks :
            Starts(t) =>
                \A o \in PuzzleCommands(t, u) :
                    /\ o.out = "no_active"
                    /\ o.active_puzzles = active_puzzles
                    /\ o.heap = heap
                    /\ o.tasks = tasks
                    /\ o.quotes = quotes

C7_Witness ==
    /\ out = "no_active"
    /\ \E u \in Users : u \notin DOMAIN active_puzzles
    /\ \E u \in DOMAIN active_puzzles : PuzzleOf(u).user_guesses # EmptyDict

\* C8: whatever handlers of one user are suspended at their awaits, no del
\* active_puzzles[id] and no lookup active_puzzles[id] raises KeyError.
C8_NoKeyError == out # "KeyError"

\* outcome o leaves every user other than A as present in or absent from
\* active_puzzles as the user was, bound to the same Puzzle, with its
\* plaintext, cipher_mapping and user_guesses unchanged
LeavesOthers(A, o) ==
    \A B \in Users \ {A} :
        /\ (B \in DOMAIN o.active_puzzles) = (B \in DOMAIN active_puzzles)
        /\ B \in DOMAIN active_puzzles =>
            /\ o.active_puzzles[B] = active_puzzles[B]
            /\ o.heap[active_puzzles[B]] = heap[active_puzzles[B]]

\* C9: every step that runs for a user A, a command A invokes (also while a
\* handler of another command is suspended) or the rest of a suspended
\* handler of A, leaves every other user B as present in or absent from
\* active_puzzles as B was, and B's Puzzle unchanged.
C9_CrossUserIsolation ==
    \A t \in DOMAIN tasks :
        /\ Starts(t) =>
            \A A \in Users :
                /\ \A o \in new_puzzle(t, A) : LeavesOthers(A, o)
                /\ \A args \in GuessArgs :
                    \A o \in guess(t, A, args[1], args[2]) : LeavesOthers(A, o)
                /\ \A cipher_char \in CommandTokens :
                    \A o \in undo(t, A, cipher_char) : LeavesOthers(A, o)
                /\ \A o \in clear(t, A) : LeavesOthers(A, o)
                /\ \A guess_text \in SolveTexts :
                    \A o \in solve_puzzle(t, A, guess_text) : LeavesOthers(A, o)
                /\ \A o \in give_hint_command(t, A) : LeavesOthers(A, o)
                /\ \A o \in show_answer(t, A) : LeavesOthers(A, o)
        /\ tasks[t].pc = "hint_sent" =>
            \A o \in give_hint_command_resume(t) : LeavesOthers(tasks[t].user, o)
        /\ tasks[t].pc = "del" =>
            \A o \in del_active_puzzle(t) : LeavesOthers(tasks[t].user, o)

C9_Witness ==
    /\ DOMAIN active_puzzles = Users
    /\ \A u \in Users : PuzzleOf(u).user_guesses # EmptyDict
    /\ tasks[1].pc = "hint_sent"

IsAlnum(ch) == isalnum(ch)

\* text lowercased, without its non-alphanumeric characters
AlnumLower(text) == SelectSeq(lower(text), IsAlnum)

\* C10: solve replies with the congratulation exactly when the candidate and
\* the plaintext are equal after lowercasing and dropping the
\* non-alphanumeric characters; it changes no Puzzle; after a failure the
\* user is still registered with the same Puzzle; after a success the
\* handler goes on to its del, after which the user is not registered,
\* whatever user_guesses holds.
C10_WholeTextSolve ==
    /\ \A u \in DOMAIN active_puzzles, guess_text \in SolveTexts :
        \A t \in DOMAIN tasks :
            Starts(t) =>
                \A o \in solve_puzzle(t, u, guess_text) :
                    LET success ==
                            AlnumLower(guess_text) = AlnumLower(PuzzleOf(u).plaintext)
                    IN  /\ o.out = IF success THEN "congrats" ELSE "no_match"
                        /\ o.heap = heap
                        /\ o.active_puzzles = active_puzzles
                        /\ o.tasks = IF success
                                     THEN [tasks EXCEPT ![t] =
                                            Suspended(u, active_puzzles[u], "del")]
                                     ELSE tasks
    /\ \A t \in DOMAIN tasks :
        tasks[t].pc = "del" =>
            \A o \in del_active_puzzle(t) :
                /\ tasks[t].user \notin DOMAIN o.active_puzzles
                /\ o.tasks[t] = Idle
                /\ \A pid \in DOMAIN o.heap : o.heap[pid] = heap[pid]

C10_Witness ==
    /\ out = "congrats"
    /\ tasks[1].pc = "del"
    /\ tasks[1].user \in DOMAIN active_puzzles
    /\ active_puzzles[tasks[1].user] = tasks[1].puzzle
    /\ PuzzleOf(tasks[1].user).user_guesses = EmptyDict
    /\ ~is_solved(PuzzleOf(tasks[1].user))

\* C15: whatever the handlers call on a Puzzle (make_guess, undo_guess,
\* clear_guesses, give_hint, is_solved, a solve attempt), the object keeps
\* its cipher_mapping and its plaintext, and so its ciphertext, for as long
\* as it exists.
C15_MappingImmutable ==
    [][\A pid \in DOMAIN heap \cap DOMAIN heap' :
            /\ heap'[pid].cipher_mapping = heap[pid].cipher_mapping
            /\ heap'[pid].plaintext = heap[pid].plaintext
            /\ get_ciphertext(heap'[pid]) = get_ciphertext(heap[pid])]_vars

\* a Puzzle with a shuffled mapping, displayed after a reveal
C15_Witness ==
    /\ out = "embed"
    /\ \E u \in DOMAIN active_puzzles :
        /\ PuzzleOf(u).user_guesses # EmptyDict
        /\ PuzzleOf(u).cipher_mapping # generate_cipher(ascii_uppercase)
        /\ \E i \in DOMAIN PuzzleOf(u).plaintext : isalpha(PuzzleOf(u).plaintext[i])

\* C17: newpuzzle from a user who has an active puzzle, when there is a
\* quote to start from, binds the user to a newly created Puzzle whose
\* user_guesses is empty, whatever the old one held; the dict keeps exactly
\* one entry for the user and the entries of the others.
C17_StartOverwrites ==
    \A u \in DOMAIN active_puzzles :
        \A t \in DOMAIN tasks :
            Starts(t) /\ quotes # <<>> =>
                \A o \in new_puzzle(t, u) :
                    /\ DOMAIN o.active_puzzles = DOMAIN active_puzzles
                    /\ o.active_puzzles[u] \notin InUse
                    /\ o.active_puzzles[u] \in DOMAIN o.heap
                    /\ o.heap[o.active_puzzles[u]].user_guesses = EmptyDict
                    /\ o.heap[o.active_puzzles[u]].plaintext \in {lower(q) : q \in Range(quotes)}
                    /\ \A v \in DOMAIN active_puzzles \ {u} :
                        o.active_puzzles[v] = active_puzzles[v]
                    /\ o.out = "embed"

\* the user's second Puzzle, just displayed: the first was still registered
\* when it was created
C17_Witness ==
    /\ out = "embed"
    /\ ~Busy
    /\ quotes # <<>>
    /\ \E u \in DOMAIN active_puzzles :
        /\ active_puzzles[u] # u
        /\ PuzzleOf(u).user_guesses = EmptyDict
        /\ \E i \in DOMAIN PuzzleOf(u).plaintext : isalpha(PuzzleOf(u).plaintext[i])

\* C18: when load_quotes returns no quote, newpuzzle creates no Puzzle and
\* leaves the dict and every Puzzle as they were, the requesting user's
\* active puzzle included.
C18_EmptyQuoteStore ==
    quotes = <<>> =>
        \A u \in Users :
            \A t \in DOMAIN tasks :
                Starts(t) =>
                    \A o \in new_puzzle(t, u) :
                        /\ o.out = "no_quotes"
                        /\ o.active_puzzles = active_puzzles
                        /\ o.heap = heap
                        /\ o.tasks = tasks
                        /\ o.quotes = quotes

\* newpuzzle refused while the only user, who requested it, has a puzzle
\* with letters revealed
C18_Witness ==
    /\ out = "no_quotes"
    /\ quotes = <<>>
    /\ active_puzzles # EmptyDict
    /\ \A u \in DOMAIN active_puzzles : PuzzleOf(u).user_guesses # EmptyDict

\* the handler in slot t has sent its last message and goes on to its del
GoesToDel(t) == tasks[t].pc # "del" /\ tasks'[t].pc = "del"

\* C19: a user's entry goes away only in the del of a handler of that user,
\* and a handler goes on to its del only after the answer, or after the
\* congratulation for a puzzle that a guess or a hint completed or that a
\* solve matched; every other step (a rejected guess, an undo, a clear, a
\* failed solve, a guess or hint that leaves the puzzle unsolved) leaves the
\* user registered with the same Puzzle, and only newpuzzle binds the user
\* to another one.
C19_SessionRetention ==
    [][/\ \A u \in DOMAIN active_puzzles :
            /\ u \notin DOMAIN active_puzzles' =>
                \E t \in DOMAIN tasks :
                    tasks[t].pc = "del" /\ tasks[t].user = u /\ tasks'[t] = Idle
            /\ u \in DOMAIN active_puzzles' /\ active_puzzles'[u] # active_puzzles[u] =>
                /\ active_puzzles'[u] \notin InUse
                /\ heap'[active_puzzles'[u]].user_guesses = EmptyDict
       /\ \A t \in DOMAIN tasks :
            GoesToDel(t) =>
                LET u == tasks'[t].user
                    pid == tasks'[t].puzzle
                IN  /\ u \in DOMAIN active_puzzles /\ active_puzzles[u] = pid
                    /\ out' \in {"congrats", "answer"}
                    /\ out' = "congrats" /\ heap'[pid] # heap[pid] => is_solved(heap'[pid])
                    /\ tasks[t].pc = "hint_sent" => is_solved(heap[pid])
       /\ (/\ \A t \in DOMAIN tasks : tasks[t].pc = "del" => tasks'[t] = tasks[t]
           /\ out' \in {"incorrect", "no_guess", "no_match", "embed", "hint",
                        "already_solved", "nothing_to_hint", "no_active", "quote_added"}) =>
            /\ DOMAIN active_puzzles \subseteq DOMAIN active_puzzles'
            /\ \A t \in DOMAIN tasks : ~GoesToDel(t)
            /\ out' # "embed" => active_puzzles' = active_puzzles
      ]_vars

\* a failed solve that left a puzzle in progress registered
C19_Witness ==
    /\ out = "no_match"
    /\ ~Busy
    /\ \E u \in DOMAIN active_puzzles :
        PuzzleOf(u).user_guesses # EmptyDict /\ ~is_solved(PuzzleOf(u))

\* C20: a handler that sent the congratulation or the answer and resumes at
\* its del removes the user's entry only if that entry is still the Puzzle
\* the handler examined; a puzzle the user started in between stays.
C20_NoStaleRemoval ==
    \A t \in DOMAIN tasks :
        tasks[t].pc = "del" =>
            \A o \in del_active_puzzle(t) :
                LET u == tasks[t].user
                IN  u \in DOMAIN active_puzzles /\ u \notin DOMAIN o.active_puzzles =>
                        active_puzzles[u] = tasks[t].puzzle

====
